---- MODULE Spec2Model ----
(***************************************************************************)
(* Session protocol engine of the Twilio Conversation Relay <-> Azure AI   *)
(* Agents bridge: State Store (StateManager), DTMF state machine           *)
(* (DTMFHelper), Idle Timer (IdleTimer), Agent Stream Adapter              *)
(* (AzureAgentService) and the Session Controller (websocketService.js).   *)
(*                                                                         *)
(* Node.js runs one macrotask at a time: each action below is one          *)
(* macrotask (a transport event, a timer callback, or the continuation of  *)
(* an awaited backend call) together with the microtasks it triggers.      *)
(***************************************************************************)
EXTENDS Integers, Sequences, FiniteSets, TLC

\* ------------------------------------------------------------------ bounds
\* Spec: the session lifecycle over several connections
MaxConns == 2
MaxObjs == 1
MaxTasks == 1
MaxThreads == 2
MaxTokens == 1
MaxOut == 2
MaxProtocolErrors == 1
MaxTime == 300000
\* SpecStream: an established session, concurrent processMessage calls in detail
StreamTasks == 2
StreamTokens == 2
StreamOut == 4
StreamMsgs == 2
\* SpecStore: the State Store alone
MaxStoreTime == 3600002
\* SpecDtmf: the DTMF helper alone
MaxFed == 11
\* SpecTimer: the idle timer alone
MaxArms == 3
MaxTimerTime == 30000
\* SpecRetry: one connection through its whole life, with two prompts
RetryTasks == 2
RetryOut == 4
\* SpecLife: connections of one session id from setup to the end of their grace periods
LifeConns == 3
LifeObjs == 2
RestoreObjs == 3
\* SpecRace: setups of one session id racing on several connections
RaceObjs == 2
LifeTime == 600000
\* SpecProto: the message handler of the controller, frame by frame
MaxFrames == 4
ProtoOut == 3
ProtoErrors == 2

\* ------------------------------------------------------- program constants
STATE_TIMEOUT == 1800000
GRACE_PERIOD == 300000
IDLE_TIMEOUT == 10000
PHONE_LENGTH == 10
DOB_LENGTH == 8

Conns == 1..(IF MaxConns > LifeConns THEN MaxConns ELSE LifeConns)
SessionIds == {"CA1"}
Prompts == {"Hello"}
TokenText == <<"Hi", " there", "!", "?">>
Languages == {"english", "spanish"}
NullThread == 0

Min(a, b) == IF a <= b THEN a ELSE b

\* =================================================================== StateManager
\* Map<string, AgentServiceState> as a function whose domain is the key set.
MapSet(m, k, v) == [x \in (DOMAIN m) \cup {k} |-> IF x = k THEN v ELSE m[x]]
MapDelete(m, k) == [x \in (DOMAIN m) \ {k} |-> m[x]]
EmptyMap == [x \in {} |-> 0]

\* restoreState: `age > StateManager.STATE_TIMEOUT`
restoreExpired_late(age) == age > STATE_TIMEOUT + 1
restoreExpired(age) == age > STATE_TIMEOUT

\* cleanupOldStates: `age > StateManager.STATE_TIMEOUT`
cleanupExpired_strict(age) == age >= STATE_TIMEOUT
cleanupExpired(age) == age > STATE_TIMEOUT

cleanupOldStates(ss, t) ==
  [x \in {k \in DOMAIN ss : ~cleanupExpired(t - ss[k].timestamp)} |-> ss[x]]

saveState_keepStamp(ss, id, state, t) ==
  cleanupOldStates(MapSet(ss, id, state), t)
saveState(ss, id, state, t) ==
  cleanupOldStates(MapSet(ss, id, [state EXCEPT !.timestamp = t]), t)

\* restoreState: the value returned (found = FALSE stands for null) ...
restoreStateFound(ss, id, t) ==
  id \in DOMAIN ss /\ ~restoreExpired(t - ss[id].timestamp)
\* ... and the map it leaves behind.
restoreStateMap(ss, id, t) ==
  IF id \in DOMAIN ss /\ restoreExpired(t - ss[id].timestamp)
  THEN MapDelete(ss, id) ELSE ss

deleteState(ss, id) == IF id \in DOMAIN ss THEN MapDelete(ss, id) ELSE ss

\* clearAll(): sessionStates.clear()
clearAll(ss) == EmptyMap

\* =================================================================== DTMFHelper
\* A string is a sequence of one-character strings; a result message is a
\* sequence of pieces whose concatenation is the JavaScript string.
NumStr(n) == <<"0","1","2","3","4","5","6","7","8","9","10","11","12">>[n + 1]
Slice(s, a, b) == SubSeq(s, a + 1, Min(b, Len(s)))

LanguageMappings == [x \in {"1", "2"} |-> IF x = "1" THEN "spanish" ELSE "english"]

DtmfInit ==
  [state |-> "languageSwitch", inputBuffer |-> <<>>,
   isCollectionComplete |-> FALSE, expectedLength |-> 0]

Done(d, res) ==
  [dt |-> [d EXCEPT !.inputBuffer = <<>>, !.isCollectionComplete = TRUE], result |-> res]
Pending(d, res) ==
  [dt |-> [d EXCEPT !.isCollectionComplete = FALSE], result |-> res]

processLanguageSwitch_pending(d, digit) ==
  IF digit \in DOMAIN LanguageMappings
  THEN Done(d, <<"The caller has requested to switch to ", LanguageMappings[digit], ".">>)
  ELSE Pending(d, <<"Invalid language selection. Press 1 for Spanish or 2 for English.">>)
processLanguageSwitch(d, digit) ==
  IF digit \in DOMAIN LanguageMappings
  THEN Done(d, <<"The caller has requested to switch to ", LanguageMappings[digit], ".">>)
  ELSE Done(d, <<"Invalid language selection. Press 1 for Spanish or 2 for English.">>)

formatPhone_344(p) == <<"(">> \o Slice(p, 0, 3) \o <<") ">> \o Slice(p, 3, 7) \o <<"-">> \o Slice(p, 7, Len(p))
formatPhone(p) == <<"(">> \o Slice(p, 0, 3) \o <<") ">> \o Slice(p, 3, 6) \o <<"-">> \o Slice(p, 6, Len(p))

processPhoneNumber(d, digit) ==
  LET expectedLength == IF d.expectedLength # 0 THEN d.expectedLength ELSE PHONE_LENGTH
      n == Len(d.inputBuffer)
  IN IF n < expectedLength
     THEN Pending(d, <<"Collecting phone number... (", NumStr(n), "/", NumStr(expectedLength), " digits)">>)
     ELSE IF n = expectedLength
     THEN Done(d, <<"Phone number received: ">> \o formatPhone(d.inputBuffer))
     ELSE Done(d, <<"Phone number input error. Too many digits entered.">>)

formatDob(b) == Slice(b, 0, 2) \o <<"/">> \o Slice(b, 2, 4) \o <<"/">> \o Slice(b, 4, Len(b))

processDateOfBirth(d, digit) ==
  LET expectedLength == DOB_LENGTH
      n == Len(d.inputBuffer)
  IN IF n < expectedLength
     THEN Pending(d, <<"Collecting date of birth... (", NumStr(n), "/", NumStr(expectedLength), " digits)">>)
     ELSE IF n = expectedLength
     THEN Done(d, <<"Date of birth received: ">> \o formatDob(d.inputBuffer))
     ELSE Done(d, <<"Date of birth input error. Too many digits entered.">>)

processConfirmation_keepBuffer(d, digit) ==
  [dt |-> [d EXCEPT !.isCollectionComplete = TRUE],
   result |-> IF digit = "1" THEN <<"The caller confirmed with 'yes'.">>
              ELSE IF digit = "2" THEN <<"The caller responded with 'no'.">>
              ELSE <<"Invalid confirmation. Press 1 for yes or 2 for no.">>]
processConfirmation(d, digit) ==
  IF digit = "1" THEN Done(d, <<"The caller confirmed with 'yes'.">>)
  ELSE IF digit = "2" THEN Done(d, <<"The caller responded with 'no'.">>)
  ELSE Done(d, <<"Invalid confirmation. Press 1 for yes or 2 for no.">>)

processMenuSelection_keepBuffer(d, digit) ==
  [dt |-> [d EXCEPT !.isCollectionComplete = TRUE],
   result |-> <<"Menu option ", digit, " selected by the caller.">>]
processMenuSelection(d, digit) ==
  Done(d, <<"Menu option ", digit, " selected by the caller.">>)

\* processDTMF: [dt |-> the helper afterwards, result |-> the returned message]
processDTMF(d0, digit) ==
  LET d == [d0 EXCEPT !.isCollectionComplete = FALSE,
                      !.inputBuffer = Append(d0.inputBuffer, digit)]
  IN CASE d.state = "languageSwitch" -> processLanguageSwitch(d, digit)
       [] d.state = "phoneNumber" -> processPhoneNumber(d, digit)
       [] d.state = "dateOfBirth" -> processDateOfBirth(d, digit)
       [] d.state = "confirmation" -> processConfirmation(d, digit)
       [] d.state = "menuSelection" -> processMenuSelection(d, digit)
       [] OTHER -> Done(d, <<"Unknown DTMF state: ", d.state>>)

dtmfSetState(d, newState, expectedLength) ==
  [state |-> newState, inputBuffer |-> <<>>, isCollectionComplete |-> FALSE,
   expectedLength |-> expectedLength]

\* getProgress()
getProgress(d) ==
  [state |-> d.state, buffer |-> d.inputBuffer, bufferLength |-> Len(d.inputBuffer),
   expectedLength |-> d.expectedLength, isComplete |-> d.isCollectionComplete]

dtmfResetState_keep(d) == d
dtmfResetState(d) == DtmfInit

dtmfClearBuffer(d) == [d EXCEPT !.inputBuffer = <<>>, !.isCollectionComplete = FALSE]

\* =================================================================== IdleTimer
\* handle: "null" (this.timer === null), "pending" (this.timer is a scheduled
\* countdown), "fired" (this.timer is the Timeout object of a countdown that has
\* run; start()'s callback never sets this.timer back to null).
\* queue: the deadlines of the countdowns this timer has scheduled with setTimeout
\* and that are still pending in the event loop, in scheduling order; this.timer,
\* when pending, is the last of them.
TimerInit(duration) ==
  [handle |-> "null", queue |-> <<>>, isActive |-> FALSE, timeoutDuration |-> duration]

\* clear() that forgets the handle without clearTimeout
timerClear_keep(t) ==
  IF t.handle # "null" THEN [t EXCEPT !.handle = "null", !.isActive = FALSE] ELSE t
timerClear(t) ==
  IF t.handle # "null"
  THEN [t EXCEPT !.handle = "null", !.isActive = FALSE,
                 !.queue = IF t.handle = "pending" THEN SubSeq(@, 1, Len(@) - 1) ELSE @]
  ELSE t

\* start() without its leading clear()
timerStart_noClear(t, clock) ==
  [t EXCEPT !.isActive = TRUE, !.handle = "pending",
            !.queue = Append(@, clock + t.timeoutDuration)]
timerStart(t, clock) ==
  LET c == timerClear(t)
  IN [c EXCEPT !.isActive = TRUE, !.handle = "pending",
               !.queue = Append(@, clock + t.timeoutDuration)]

\* the setTimeout callback of countdown i, up to the emit: the countdown leaves the
\* event loop; this.timer keeps pointing at it
timerFire(t, i) ==
  [t EXCEPT !.queue = SubSeq(@, 1, i - 1) \o SubSeq(@, i + 1, Len(@)),
            !.handle = IF i = Len(t.queue) /\ t.handle = "pending" THEN "fired" ELSE @]

\* ... and after the emit
timerFired(t) == [t EXCEPT !.isActive = FALSE]

timerRestart(t, clock) == timerStart(t, clock)

\* isRunning()
isRunning(t) == t.isActive

timerSetDuration(t, d, clock) ==
  LET u == [t EXCEPT !.timeoutDuration = d]
  IN IF u.isActive THEN timerStart(u, clock) ELSE u

\* =================================================================== state
VARIABLES
  now,             \* Date.now(), in milliseconds
  sessionStates,   \* StateManager.sessionStates
  activeSessions,  \* websocketService activeSessions: sessionId -> service bundle
  conns,           \* per connection: socket state and the closure variables
                   \*   svc = agentService/dtmfHelper/idleTimer (0 = null), sid = currentSessionId
  objs,            \* the service bundles created by `new AzureAgentService/DTMFHelper/IdleTimer`
  inits,           \* initializeSession calls suspended at an await
  tasks,           \* processMessage calls (index = order of the call)
  threads,         \* backend: the message list of every thread created
  out,             \* frames handed to an open socket by ws.send, in order
  grace,           \* pending grace-period setTimeout callbacks
  ret,             \* result of the last State Store operation (SpecStore)
  cap              \* the bounds of the specification being explored (never changes)

vars == <<now, sessionStates, activeSessions, conns, objs, inits, tasks, threads, out, grace, ret, cap>>

ConnInit == [st |-> "idle", svc |-> 0, sid |-> ""]

NoSnapshot == [sessionId |-> "", threadId |-> NullThread, timestamp |-> 0]
NoRet == [op |-> "none", id |-> "", present |-> FALSE, found |-> FALSE,
          state |-> NoSnapshot, at |-> 0]

ObjInit(sid) ==
  [sessionId |-> sid, threadId |-> NullThread, isStreaming |-> FALSE,
   agentL |-> 0, idleL |-> 0, bound |-> 0,
   dtmf |-> DtmfInit, timer |-> TimerInit(IDLE_TIMEOUT)]

SessionCap ==
  [conns |-> MaxConns, objs |-> MaxObjs, tasks |-> MaxTasks, threads |-> MaxThreads,
   tokens |-> MaxTokens, msgs |-> 1, out |-> MaxOut, perr |-> MaxProtocolErrors, time |-> MaxTime,
   detail |-> FALSE, digits |-> {"1"}, frames |-> 0]
StreamCap ==
  [conns |-> 1, objs |-> 1, tasks |-> StreamTasks, threads |-> 1,
   tokens |-> StreamTokens, msgs |-> StreamMsgs, out |-> StreamOut, perr |-> 0, time |-> 0,
   detail |-> TRUE, digits |-> {"1", "5"}, frames |-> 0]
RetryCap ==
  [conns |-> 1, objs |-> 1, tasks |-> RetryTasks, threads |-> 1,
   tokens |-> 1, msgs |-> 1, out |-> RetryOut, perr |-> 1, time |-> MaxTime,
   detail |-> FALSE, digits |-> {"1"}, frames |-> 0]
LifeCap ==
  [conns |-> LifeConns, objs |-> LifeObjs, tasks |-> 0, threads |-> LifeObjs,
   tokens |-> 0, msgs |-> 1, out |-> 1, perr |-> 1, time |-> LifeTime,
   detail |-> FALSE, digits |-> {"1"}, frames |-> 0]
RestoreCap ==
  [LifeCap EXCEPT !.objs = RestoreObjs, !.time = GRACE_PERIOD]
RaceCap ==
  [conns |-> MaxConns, objs |-> RaceObjs, tasks |-> 0, threads |-> RaceObjs,
   tokens |-> 0, msgs |-> 1, out |-> 1, perr |-> 1, time |-> 0,
   detail |-> FALSE, digits |-> {"1"}, frames |-> 0]
\* SpecProto records every inbound frame handled (cap.frames > 0) in ret
ProtoCap ==
  [conns |-> MaxConns, objs |-> 1, tasks |-> 1, threads |-> 1,
   tokens |-> 1, msgs |-> 1, out |-> ProtoOut, perr |-> ProtoErrors, time |-> 0,
   detail |-> FALSE, digits |-> {"1", "5"}, frames |-> MaxFrames]

Start ==
  /\ now = 0
  /\ sessionStates = EmptyMap
  /\ activeSessions = EmptyMap
  /\ conns = [c \in Conns |-> ConnInit]
  /\ objs = <<>>
  /\ inits = {}
  /\ tasks = <<>>
  /\ threads = <<>>
  /\ out = <<>>
  /\ grace = {}
  /\ ret = NoRet

Init == Start /\ cap = SessionCap

\* SpecStream starts where connection 1 has completed the setup of session "CA1":
\* services created, thread 1 created, session registered, listeners attached.
InitStream ==
  /\ now = 0
  /\ sessionStates = EmptyMap
  /\ activeSessions = [x \in {"CA1"} |-> 1]
  /\ conns = [c \in Conns |-> IF c = 1 THEN [st |-> "open", svc |-> 1, sid |-> "CA1"]
                                ELSE ConnInit]
  /\ objs = <<[ObjInit("CA1") EXCEPT !.threadId = 1, !.agentL = 1, !.idleL = 1, !.bound = 1]>>
  /\ inits = {}
  /\ tasks = <<>>
  /\ threads = << <<>> >>
  /\ out = <<>>
  /\ grace = {}
  /\ ret = NoRet
  /\ cap = StreamCap

\* ------------------------------------------------------------ outward frames
\* config.languages (languageOptions): language -> locale_code
LanguageLocale == [l \in Languages |-> IF l = "english" THEN "en-US" ELSE "es-US"]

\* the JSON objects the listeners serialise
onTextDelta(token) == <<[type |-> "text", token |-> token, last |-> FALSE]>>
onTextComplete(content) == <<[type |-> "text", token |-> "", last |-> TRUE]>>
\* config.languages is a plain object: config.languages[target] also finds the
\* properties inherited from Object.prototype, which are truthy and have no
\* locale_code; JSON.stringify leaves the two undefined fields out of the frame
InheritedKeys == {"constructor"}
onLanguageSwitch(target) ==
  IF target \in DOMAIN LanguageLocale
  THEN <<[type |-> "language", ttsLanguage |-> LanguageLocale[target],
          transcriptionLanguage |-> LanguageLocale[target]]>>
  ELSE IF target \in InheritedKeys
  THEN <<[type |-> "language"]>>
  ELSE <<>>
onHandoff(data) == <<[type |-> "end", handoffData |-> data]>>
onError_silent(message) == <<>>
onError(message) == <<[type |-> "error", message |-> message]>>

Listeners(ev) ==
  CASE ev.kind = "textDelta" -> onTextDelta(ev.arg)
    [] ev.kind = "textComplete" -> onTextComplete(ev.arg)
    [] ev.kind = "languageSwitch" -> onLanguageSwitch(ev.arg)
    [] ev.kind = "handoff" -> onHandoff(ev.arg)
    [] ev.kind = "error" -> onError(ev.arg)
    [] OTHER -> <<>>   \* thinking, toolCall, runComplete: logged only

\* ws.send(JSON.stringify(m)) on socket ws; a socket that is not OPEN sends nothing.
\* stream/late annotate the frame with the processMessage call it stems from and
\* whether that call's stream had been interrupted before.
Wire(ws, ms, k, late) ==
  IF conns[ws].st = "open"
  THEN [i \in 1..Len(ms) |-> [conn |-> ws, msg |-> ms[i], stream |-> k, late |-> late]]
  ELSE <<>>

\* agentService.emit(ev) on bundle o
Emit(o, ev, k, late) ==
  IF objs[o].agentL = 0 THEN <<>> ELSE Wire(objs[o].agentL, Listeners(ev), k, late)

Ev(kind, arg) == [kind |-> kind, arg |-> arg]

\* ------------------------------------------------------- AzureAgentService
getState(o) == [sessionId |-> objs[o].sessionId, threadId |-> objs[o].threadId, timestamp |-> now]

\* processMessage(m) up to its first backend call: createThread() when there is
\* no thread yet, else messages.create on the current thread.
NewTask(o, m) ==
  [obj |-> o, msg |-> m,
   pc |-> IF objs[o].threadId = NullThread THEN "createThread" ELSE "addMessage",
   thread |-> objs[o].threadId, content |-> <<>>, bphase |-> "run",
   stopped |-> FALSE, msgs |-> <<>>]

processMessage(o, m) == Append(tasks, NewTask(o, m))

InFlight(t) == t.pc \in {"runCreate", "streaming"}

\* a processMessage call that has returned; its locals are gone
Finished(t) ==
  [t EXCEPT !.pc = "done", !.thread = NullThread, !.content = <<>>, !.bphase = "ended",
            !.stopped = FALSE, !.msgs = <<>>]

HasListener(o) == objs[o].agentL # 0

\* createThread() of a processMessage call returns. Success sets this.threadId and
\* goes on to addMessage; failure emits 'error' in createThread's catch and again in
\* processMessage's catch.
CreateThreadDone(k, ok) ==
  /\ k \in 1..Len(tasks)
  /\ tasks[k].pc = "createThread"
  /\ LET o == tasks[k].obj
         e == Ev("error", "threads.create failed")
     IN IF ok
        THEN /\ Len(threads) < cap.threads
             /\ threads' = Append(threads, <<>>)
             /\ objs' = [objs EXCEPT ![o].threadId = Len(threads) + 1]
             /\ tasks' = [tasks EXCEPT ![k].pc = "addMessage", ![k].thread = Len(threads) + 1]
             /\ UNCHANGED out
        ELSE /\ Len(out) < cap.out
             /\ out' = out \o Emit(o, e, k, FALSE) \o Emit(o, e, k, FALSE)
             /\ tasks' = [tasks EXCEPT ![k] = Finished(@)]
             /\ UNCHANGED <<objs, threads>>
  /\ UNCHANGED <<now, sessionStates, activeSessions, conns, inits, grace, ret, cap>>

\* messages.create of a processMessage call returns. Success: the message is on the
\* thread and streamResponse() starts (isStreaming = true, 'thinking', runs.create
\* issued). Failure: 'error' in addMessage's catch and in processMessage's catch.
AddMessageDone(k, ok) ==
  /\ k \in 1..Len(tasks)
  /\ tasks[k].pc = "addMessage"
  /\ LET o == tasks[k].obj
         e == Ev("error", "messages.create failed")
     IN IF ok
        THEN /\ threads' = [threads EXCEPT ![tasks[k].thread] = Append(@, tasks[k].msg)]
             /\ objs' = [objs EXCEPT ![o].isStreaming = TRUE]
             /\ tasks' = [tasks EXCEPT ![k].pc = "runCreate"]
             /\ UNCHANGED out
        ELSE /\ Len(out) < cap.out
             /\ out' = out \o Emit(o, e, k, FALSE) \o Emit(o, e, k, FALSE)
             /\ tasks' = [tasks EXCEPT ![k] = Finished(@)]
             /\ UNCHANGED <<objs, threads>>
  /\ UNCHANGED <<now, sessionStates, activeSessions, conns, inits, grace, ret, cap>>

\* streamResponse's catch followed by processMessage's catch: emit 'error',
\* isStreaming = false, rethrow, emit 'error'. EventEmitter throws on an 'error'
\* event nobody listens to, which skips the isStreaming reset. `late` tells whether
\* the error stems from an event the stream yielded after it had been interrupted.
StreamCatch(k, message, late) ==
  LET o == tasks[k].obj
      e == Ev("error", message)
  IN /\ Len(out) < cap.out
     /\ out' = out \o Emit(o, e, k, late) \o Emit(o, e, k, late)
     /\ objs' = [objs EXCEPT ![o].isStreaming = IF HasListener(o) THEN FALSE ELSE @]
     /\ tasks' = [tasks EXCEPT ![k] = Finished(@)]

\* runs.create(...).stream() returns
RunCreateDone(k, ok) ==
  /\ k \in 1..Len(tasks)
  /\ tasks[k].pc = "runCreate"
  /\ IF ok
     THEN /\ tasks' = [tasks EXCEPT ![k].pc = "streaming"]
          /\ UNCHANGED <<objs, out>>
     ELSE StreamCatch(k, "runs.create failed", FALSE)
  /\ UNCHANGED <<now, sessionStates, activeSessions, conns, inits, threads, grace, ret, cap>>

\* The backend's run: the token deltas of a message, then the completed message,
\* possibly further messages, and the completed run; or a tool call (the run then
\* waits for outputs nobody submits); or a failure. t.msgs records, for each
\* message completed so far, how many tokens the stream had yielded by then.
ToolCalls ==
  { [name |-> "switch_language", arg |-> "spanish"],
    [name |-> "switch_language", arg |-> "french"],
    [name |-> "switch_language", arg |-> "constructor"],
    [name |-> "human_agent_handoff", arg |-> "billing"] }

NextEvents(t) ==
  IF t.bphase = "ended" THEN {}
  ELSE { [event |-> "thread.message.delta", name |-> "", arg |-> tok] :
           tok \in IF Len(t.content) < cap.tokens /\ Len(t.msgs) < cap.msgs
                   THEN {TokenText[Len(t.content) + 1]} ELSE {} }
       \cup { [event |-> "thread.message.completed", name |-> "", arg |-> ""] :
                x \in IF Len(t.msgs) < cap.msgs THEN {1} ELSE {} }
       \cup { [event |-> "thread.run.completed", name |-> "", arg |-> ""] :
                x \in IF t.bphase = "msgDone" THEN {1} ELSE {} }
       \cup { [event |-> "thread.run.requires_action", name |-> tc.name, arg |-> tc.arg] :
                tc \in IF cap.detail /\ t.bphase = "run" THEN ToolCalls ELSE {} }
       \cup ( IF cap.detail /\ t.bphase = "run"
               THEN { [event |-> "thread.run.failed", name |-> "", arg |-> ""],
                      [event |-> "error", name |-> "", arg |-> ""] }
               ELSE {} )

\* _handleSpecialToolCalls
SpecialToolCall(tc) ==
  IF tc.name \in {"switch_language", "change_language"}
  THEN <<Ev("languageSwitch", tc.arg)>>
  ELSE IF tc.name \in {"human_agent_handoff", "transfer_to_agent", "escalate"}
  THEN <<Ev("handoff", tc.arg)>>
  ELSE <<>>

\* the events streamResponse emits for one stream event (the switch of the loop)
handleMessageCompleted(content) ==
  IF content # <<>> THEN <<Ev("textComplete", content)>> ELSE <<>>

StreamEmits(t, ev) ==
  CASE ev.event = "thread.message.delta" -> <<Ev("textDelta", ev.arg)>>
    [] ev.event = "thread.message.completed" -> handleMessageCompleted(t.content)
    [] ev.event = "thread.run.requires_action" ->
         <<Ev("toolCall", ev.name)>> \o SpecialToolCall(ev)
    [] ev.event = "thread.run.completed" -> <<Ev("runComplete", "")>>
    [] ev.event = "thread.run.failed" -> <<Ev("error", "Run thread.run.failed: Unknown error")>>
    [] ev.event = "error" -> <<Ev("error", "Stream error")>>
    [] OTHER -> <<>>

RECURSIVE EmitAll(_, _, _, _)
EmitAll(o, evs, k, late) ==
  IF evs = <<>> THEN <<>>
  ELSE Emit(o, Head(evs), k, late) \o EmitAll(o, Tail(evs), k, late)


\* the break of the for-await loop
interrupted(o) == ~objs[o].isStreaming

\* One iteration of `for await (const event of stream)`.
StreamEvent(k, ev) ==
  /\ k \in 1..Len(tasks)
  /\ tasks[k].pc = "streaming"
  /\ ev \in NextEvents(tasks[k])
  /\ LET t == tasks[k]
         o == t.obj
         evs == StreamEmits(t, ev)
         isErr == ev.event \in {"thread.run.failed", "error"}
     IN IF interrupted(o)
        THEN \* `if (!this.isStreaming) break;` then `this.isStreaming = false`
             /\ tasks' = [tasks EXCEPT ![k] = Finished(@)]
             /\ UNCHANGED <<objs, out>>
        ELSE IF isErr /\ ~HasListener(o)
        THEN \* the unhandled 'error' event throws into streamResponse's catch
             StreamCatch(k, evs[1].arg, t.stopped)
        ELSE /\ Len(out) < cap.out
             /\ out' = out \o EmitAll(o, evs, k, t.stopped)
             /\ tasks' = [tasks EXCEPT
                  ![k].content = IF ev.event = "thread.message.delta"
                                 THEN Append(@, ev.arg) ELSE @,
                  ![k].msgs = IF ev.event = "thread.message.completed"
                              THEN Append(@, Len(t.content)) ELSE @,
                  ![k].bphase = CASE ev.event = "thread.message.delta" -> "run"
                                  [] ev.event = "thread.message.completed" -> "msgDone"
                                  [] OTHER -> "ended"]
             /\ UNCHANGED objs
  /\ UNCHANGED <<now, sessionStates, activeSessions, conns, inits, threads, grace, ret, cap>>

\* The stream is exhausted: the loop ends and isStreaming = false.
StreamEnd(k) ==
  /\ k \in 1..Len(tasks)
  /\ tasks[k].pc = "streaming"
  /\ tasks[k].bphase = "ended"
  /\ tasks' = [tasks EXCEPT ![k] = Finished(@)]
  /\ objs' = [objs EXCEPT ![tasks[k].obj].isStreaming = FALSE]
  /\ UNCHANGED <<now, sessionStates, activeSessions, conns, inits, threads, out, grace, ret, cap>>

\* The stream iterator throws (connection to the backend lost).
StreamThrow(k) ==
  /\ k \in 1..Len(tasks)
  /\ tasks[k].pc = "streaming"
  /\ tasks[k].bphase # "ended"
  /\ StreamCatch(k, "stream aborted", FALSE)
  /\ UNCHANGED <<now, sessionStates, activeSessions, conns, inits, threads, grace, ret, cap>>

\* ------------------------------------------------------- Session Controller
ReconnectNotice == <<"SYSTEM NOTICE: The connection was temporarily disconnected and has now been restored. If the user's last message is unclear or incomplete, please politely ask them to repeat or clarify their request.">>
IdleNotice == <<"SYSTEM NOTICE: DTMF input was not received within the expected timeframe. Please reprompt the caller or continue with the conversation.">>
NotInitialized == "Session not initialized. Setup message required first."
InvalidFormat == "Invalid message format"

\* the protocol-error frames sent so far (bounded by cap.perr)
ProtocolErrors ==
  Cardinality({i \in 1..Len(out) : out[i].stream = 0 /\ out[i].msg.type = "error"
                                      /\ out[i].msg.message \in {NotInitialized, InvalidFormat}})

\* ws.on('message'): history of the frames handled, kept only in SpecProto:
\* the type of the latest frame, its connection and how many were handled
NoFrame == [op |-> "none", conn |-> 0, n |-> 0]
CanReceive == cap.frames > 0 => ret.n < cap.frames
Received(c, kind) ==
  IF cap.frames > 0 THEN [op |-> kind, conn |-> c, n |-> ret.n + 1] ELSE ret

\* payloads that are not protocol messages: text that is not JSON, and JSON
\* texts for null and for a number
Payloads == {"{bad", "null", "42"}

\* JSON.parse(message.toString()) followed by the read of parsedMessage.type:
\* "SyntaxError" (parse throws), "TypeError" (type read of null throws) or
\* "undefined" (a value without a type: the switch takes its default case)
parsedType(payload) ==
  IF payload = "{bad" THEN "SyntaxError"
  ELSE IF payload = "null" THEN "TypeError"
  ELSE "undefined"

\* wss.on('connection'): connections are numbered in the order they are accepted
Connect(c) ==
  /\ conns[c].st = "idle"
  /\ c <= cap.conns
  /\ IF c = 1 THEN TRUE ELSE conns[c - 1].st # "idle"
  /\ conns' = [conns EXCEPT ![c].st = "open"]
  /\ UNCHANGED <<now, sessionStates, activeSessions, objs, inits, tasks, threads, out, grace, ret, cap>>

\* setupEventListeners() run by connection c on bundle o: removeAllListeners on the
\* agent service and the idle timer, then listeners that send on c's socket
setupEventListeners(os, c, o) ==
  [os EXCEPT ![o].agentL = c, ![o].idleL = c, ![o].bound = c]

\* history: the grace timers of connections for whose session id a setup arrives
\* while they are pending
MarkRebound(sid) ==
  { IF conns[g.conn].sid = sid THEN [g EXCEPT !.rebound = TRUE] ELSE g : g \in grace }

\* the rebind branch of initializeSession (a mutant adds the reconnection notice)
rebindThreads_notice(o) ==
  IF objs[o].threadId = NullThread THEN threads
  ELSE [threads EXCEPT ![objs[o].threadId] = Append(@, ReconnectNotice)]
rebindThreads(o) == threads

\* AzureAgentService.restoreState(state): the thread id the adapter has afterwards
agentRestoreState_ignore(state) == NullThread
agentRestoreState(state) == state.threadId

\* the call initializeSession awaits for new services: the reconnection notice
\* after a restore, createThread otherwise
restoreAwait_noNotice(found) == "createThread"
restoreAwait(found) == IF found THEN "addNotice" ELSE "createThread"

\* case 'setup': initializeSession(callSid) up to its first await (or to its end)
HandleSetup(c, sid) ==
  /\ conns[c].st = "open"
  /\ IF sid \in DOMAIN activeSessions
     THEN \* existing session: take over its services
          LET o == activeSessions[sid]
          IN /\ conns' = [conns EXCEPT ![c].sid = sid, ![c].svc = o]
             /\ objs' = setupEventListeners(objs, c, o)
             /\ grace' = MarkRebound(sid)
             /\ threads' = rebindThreads(o)
             /\ UNCHANGED <<sessionStates, activeSessions, inits>>
     ELSE \* new services; restore from the State Store or create a thread
          LET o == Len(objs) + 1
              found == restoreStateFound(sessionStates, sid, now)
              tid == IF found THEN agentRestoreState(sessionStates[sid]) ELSE NullThread
              fresh == [ObjInit(sid) EXCEPT !.threadId = tid]
          IN /\ Len(objs) < cap.objs
             /\ conns' = [conns EXCEPT ![c].sid = sid, ![c].svc = o]
             /\ sessionStates' = restoreStateMap(sessionStates, sid, now)
             /\ objs' = Append(objs, fresh)
             /\ inits' = inits \cup
                  {[conn |-> c, sid |-> sid, obj |-> o, thread |-> tid,
                    await |-> restoreAwait(found)]}
             /\ UNCHANGED activeSessions
             /\ grace' = MarkRebound(sid)
             /\ UNCHANGED threads
  /\ CanReceive
  /\ ret' = Received(c, "setup")
  /\ UNCHANGED <<now, tasks, out, cap>>

\* initializeSession resumes after its await: activeSessions.set with the
\* connection's current services, then setupEventListeners(). A failed
\* createThread rejects initializeSession into the message handler's catch.
\* addMessage on an adapter restored without a thread id rejects with 'Thread ID
\* not set' before its try block: nothing is emitted and the failure is caught.
InitResume(i, ok) ==
  /\ i \in inits
  /\ (i.await = "addNotice" /\ i.thread = NullThread) => ~ok
  /\ inits' = inits \ {i}
  /\ LET o == i.obj
         c == i.conn
         cur == conns[c].svc
         e == Ev("error", IF i.await = "createThread" THEN "threads.create failed"
                          ELSE "messages.create failed")
     IN IF i.await = "createThread" /\ ~ok
        THEN /\ Len(out) < cap.out
             /\ ProtocolErrors < cap.perr
             /\ out' = out \o Emit(o, e, 0, FALSE) \o Wire(c, onError(InvalidFormat), 0, FALSE)
             /\ UNCHANGED <<objs, threads, activeSessions>>
        ELSE /\ IF i.await = "createThread"
                THEN /\ Len(threads) < cap.threads
                     /\ threads' = Append(threads, <<>>)
                     /\ objs' = setupEventListeners(
                                  [objs EXCEPT ![o].threadId = Len(threads) + 1], c, cur)
                     /\ UNCHANGED out
                ELSE /\ threads' = IF ok THEN [threads EXCEPT ![i.thread] = Append(@, ReconnectNotice)]
                                   ELSE threads
                     /\ objs' = setupEventListeners(objs, c, cur)
                     /\ IF ok \/ i.thread = NullThread THEN UNCHANGED out
                        ELSE /\ Len(out) < cap.out
                             /\ out' = out \o Emit(o, e, 0, FALSE)
             /\ activeSessions' = MapSet(activeSessions, i.sid, cur)
  /\ UNCHANGED <<now, sessionStates, conns, tasks, grace, ret, cap>>

\* case 'prompt'
HandlePrompt(c, text) ==
  /\ conns[c].st = "open"
  /\ IF conns[c].svc = 0
     THEN /\ Len(out) < cap.out
          /\ ProtocolErrors < cap.perr
          /\ out' = out \o Wire(c, onError(NotInitialized), 0, FALSE)
          /\ UNCHANGED tasks
     ELSE /\ Len(tasks) < cap.tasks
          /\ tasks' = processMessage(conns[c].svc, <<text>>)
          /\ UNCHANGED out
  /\ CanReceive
  /\ ret' = Received(c, "prompt")
  /\ UNCHANGED <<now, sessionStates, activeSessions, conns, objs, inits, threads, grace, cap>>

\* case 'dtmf'
HandleDtmf(c, digit) ==
  /\ conns[c].st = "open"
  /\ IF conns[c].svc = 0
     THEN UNCHANGED <<tasks, objs>>
     ELSE LET o == conns[c].svc
              r == processDTMF(objs[o].dtmf, digit)
              restarted == timerRestart(objs[o].timer, now)
          IN IF r.dt.isCollectionComplete
             THEN /\ Len(tasks) < cap.tasks
                  /\ tasks' = processMessage(o, <<"DTMF INPUT: ">> \o r.result)
                  /\ objs' = [objs EXCEPT ![o].timer = timerClear(restarted),
                                          ![o].dtmf = dtmfResetState(r.dt)]
             ELSE /\ objs' = [objs EXCEPT ![o].timer = restarted, ![o].dtmf = r.dt]
                  /\ UNCHANGED tasks
  /\ CanReceive
  /\ ret' = Received(c, "dtmf")
  /\ UNCHANGED <<now, sessionStates, activeSessions, conns, inits, threads, out, grace, cap>>

\* stopStreaming()
stopStreaming_none(os, o) == os
stopStreaming(os, o) == [os EXCEPT ![o].isStreaming = FALSE]

\* case 'interrupt'; the calls inside their for-await loop are marked as stopped
HandleInterrupt(c) ==
  /\ conns[c].st = "open"
  /\ IF conns[c].svc = 0
     THEN UNCHANGED <<objs, tasks>>
     ELSE /\ objs' = stopStreaming(objs, conns[c].svc)
          /\ tasks' = [k \in 1..Len(tasks) |->
                         IF tasks[k].obj = conns[c].svc /\ tasks[k].pc = "streaming"
                         THEN [tasks[k] EXCEPT !.stopped = TRUE] ELSE tasks[k]]
  /\ CanReceive
  /\ ret' = Received(c, "interrupt")
  /\ UNCHANGED <<now, sessionStates, activeSessions, conns, inits, threads, out, grace, cap>>

\* a frame that is no protocol message: a throw inside the try block reaches
\* the handler's catch; a value without a type reaches the default case
HandleMalformed(c, payload) ==
  /\ conns[c].st = "open"
  /\ IF parsedType(payload) \in {"SyntaxError", "TypeError"}
     THEN /\ Len(out) < cap.out
          /\ ProtocolErrors < cap.perr
          /\ out' = out \o Wire(c, onError(InvalidFormat), 0, FALSE)
     ELSE UNCHANGED out
  /\ CanReceive
  /\ ret' = Received(c, "malformed")
  /\ UNCHANGED <<now, sessionStates, activeSessions, conns, objs, inits, tasks, threads, grace, cap>>

SaveOnDisconnect(c) ==
  IF conns[c].svc # 0 /\ conns[c].sid # ""
  THEN saveState(sessionStates, conns[c].sid, getState(conns[c].svc), now)
  ELSE sessionStates

\* ws.on('error'); the socket is closing afterwards and a close event follows
TransportError_schedules(c) ==
  /\ conns[c].st = "open"
  /\ conns' = [conns EXCEPT ![c].st = "errored"]
  /\ sessionStates' = SaveOnDisconnect(c)
  /\ grace' = grace \cup {[conn |-> c, deadline |-> now + GRACE_PERIOD, rebound |-> FALSE]}
  /\ UNCHANGED <<now, activeSessions, objs, inits, tasks, threads, out, ret, cap>>
TransportError(c) ==
  /\ conns[c].st = "open"
  /\ conns' = [conns EXCEPT ![c].st = "errored"]
  /\ sessionStates' = SaveOnDisconnect(c)
  /\ UNCHANGED <<now, activeSessions, objs, inits, tasks, threads, out, grace, ret, cap>>

\* ws.on('close')
TransportClose(c) ==
  /\ conns[c].st \in {"open", "errored"}
  /\ conns' = [conns EXCEPT ![c].st = "closed"]
  /\ sessionStates' = SaveOnDisconnect(c)
  /\ objs' = IF conns[c].svc # 0
             THEN [objs EXCEPT ![conns[c].svc].timer = timerClear(@)] ELSE objs
  /\ grace' = grace \cup {[conn |-> c, deadline |-> now + GRACE_PERIOD, rebound |-> FALSE]}
  /\ UNCHANGED <<now, activeSessions, inits, tasks, threads, out, ret, cap>>

\* AzureAgentService.cleanup() and IdleTimer.cleanup()
cleanup(os, o) ==
  [stopStreaming(os, o) EXCEPT ![o].agentL = 0, ![o].idleL = 0,
                               ![o].timer = timerClear(@)]

\* whether the grace callback tears the session down
graceDestroys(g) ==
  conns[g.conn].sid # "" /\ conns[g.conn].sid \in DOMAIN activeSessions

\* the grace-period setTimeout callback scheduled by connection g.conn's close
GraceFire(g) ==
  /\ g \in grace
  /\ g.deadline = now
  /\ grace' = grace \ {g}
  /\ LET sid == conns[g.conn].sid
     IN IF graceDestroys(g)
        THEN /\ activeSessions' = MapDelete(activeSessions, sid)
             /\ objs' = cleanup(objs, activeSessions[sid])
             /\ sessionStates' = deleteState(sessionStates, sid)
        ELSE UNCHANGED <<activeSessions, objs, sessionStates>>
  /\ UNCHANGED <<now, conns, inits, tasks, threads, out, ret, cap>>

\* time passes; a due timer callback runs before the clock moves past its deadline
Deadlines ==
  {g.deadline : g \in grace}
  \cup UNION {{objs[o].timer.queue[i] : i \in 1..Len(objs[o].timer.queue)} : o \in 1..Len(objs)}

TimeSteps == {GRACE_PERIOD, STATE_TIMEOUT}

Advance(d) ==
  /\ now + d <= cap.time
  /\ \A t \in Deadlines : now + d <= t
  /\ now' = now + d
  /\ UNCHANGED <<sessionStates, activeSessions, conns, objs, inits, tasks, threads, out, grace, ret, cap>>

Next ==
  \/ \E c \in Conns : Connect(c)
  \/ \E c \in Conns, sid \in SessionIds : HandleSetup(c, sid)
  \/ \E i \in inits, ok \in BOOLEAN : InitResume(i, ok)
  \/ \E c \in Conns, text \in Prompts : HandlePrompt(c, text)
  \/ \E c \in Conns, digit \in cap.digits : HandleDtmf(c, digit)
  \/ \E c \in Conns : HandleInterrupt(c)
  \/ \E c \in Conns, payload \in Payloads : HandleMalformed(c, payload)
  \/ \E c \in Conns : TransportError(c)
  \/ \E c \in Conns : TransportClose(c)
  \/ \E g \in grace : GraceFire(g)
  \/ \E k \in DOMAIN tasks, ok \in BOOLEAN : CreateThreadDone(k, ok)
  \/ \E k \in DOMAIN tasks, ok \in BOOLEAN : AddMessageDone(k, ok)
  \/ \E k \in DOMAIN tasks, ok \in BOOLEAN : RunCreateDone(k, ok)
  \/ \E k \in DOMAIN tasks : \E ev \in NextEvents(tasks[k]) : StreamEvent(k, ev)
  \/ \E k \in DOMAIN tasks : StreamEnd(k)
  \/ \E k \in DOMAIN tasks : StreamThrow(k)
  \/ \E d \in TimeSteps : Advance(d)

Spec == Init /\ [][Next]_vars

\* one connection from its setup to the end of its grace period
InitRetry == Start /\ cap = RetryCap

SpecRetry == InitRetry /\ [][Next]_vars

\* the connections of a session id from setup to the end of their grace periods;
\* while an initializeSession call awaits its backend call the event loop handles
\* further frames, closes, errors, connections and timers
InitLife == Start /\ cap = LifeCap

NextLife ==
  \/ \E i \in inits, ok \in BOOLEAN : InitResume(i, ok)
  \/ \E c \in Conns : Connect(c)
  \/ \E c \in Conns, sid \in SessionIds : HandleSetup(c, sid)
  \/ \E c \in Conns : TransportError(c)
  \/ \E c \in Conns : TransportClose(c)
  \/ \E g \in grace : GraceFire(g)
  \/ \E d \in TimeSteps : Advance(d)

SpecLife == InitLife /\ [][NextLife]_vars

\* the same steps over one grace period with a third service bundle, so that a
\* connection can send a further setup while its restore awaits the notice call
InitRestore == Start /\ cap = RestoreCap

SpecRestore == InitRestore /\ [][NextLife]_vars

\* ------------------------------------------------- concurrent setups
\* one setup frame per connection with the thread creations in flight, and the
\* connections' errors and closes; no prompt and no timer
InitRace == Start /\ cap = RaceCap

NextRace ==
  \/ \E c \in Conns : Connect(c)
  \/ \E c \in Conns, sid \in SessionIds : conns[c].sid = "" /\ HandleSetup(c, sid)
  \/ \E i \in inits, ok \in BOOLEAN : InitResume(i, ok)
  \/ \E c \in Conns : TransportError(c)
  \/ \E c \in Conns : TransportClose(c)

SpecRace == InitRace /\ [][NextRace]_vars

\* ------------------------------------------------- the message handler, frame by frame
InitProto ==
  /\ now = 0
  /\ sessionStates = EmptyMap
  /\ activeSessions = EmptyMap
  /\ conns = [c \in Conns |-> ConnInit]
  /\ objs = <<>>
  /\ inits = {}
  /\ tasks = <<>>
  /\ threads = <<>>
  /\ out = <<>>
  /\ grace = {}
  /\ ret = NoFrame
  /\ cap = ProtoCap

NextProto ==
  \/ \E c \in Conns : Connect(c)
  \/ \E c \in Conns, sid \in SessionIds : HandleSetup(c, sid)
  \/ \E i \in inits, ok \in BOOLEAN : InitResume(i, ok)
  \/ \E c \in Conns, text \in Prompts : HandlePrompt(c, text)
  \/ \E c \in Conns, digit \in cap.digits : HandleDtmf(c, digit)
  \/ \E c \in Conns : HandleInterrupt(c)
  \/ \E c \in Conns, payload \in Payloads : HandleMalformed(c, payload)
  \/ \E k \in DOMAIN tasks, ok \in BOOLEAN : AddMessageDone(k, ok)
  \/ \E k \in DOMAIN tasks, ok \in BOOLEAN : RunCreateDone(k, ok)
  \/ \E k \in DOMAIN tasks : \E ev \in NextEvents(tasks[k]) : StreamEvent(k, ev)
  \/ \E k \in DOMAIN tasks : StreamEnd(k)

SpecProto == InitProto /\ [][NextProto]_vars

\* ------------------------------------------------------------ State Store alone
StoreIds == {"CA1", "CA2"}
StoreThreads == {1, 2}
StoreSteps == {STATE_TIMEOUT - 1, STATE_TIMEOUT, STATE_TIMEOUT + 1}

StoreSave(id, st) ==
  /\ sessionStates' = saveState(sessionStates, id, st, now)
  /\ ret' = [op |-> "save", id |-> id, present |-> id \in DOMAIN sessionStates,
             found |-> FALSE, state |-> st, at |-> now]
  /\ UNCHANGED <<now, activeSessions, conns, objs, inits, tasks, threads, out, grace, cap>>

StoreRestore(id) ==
  /\ sessionStates' = restoreStateMap(sessionStates, id, now)
  /\ ret' = [op |-> "restore", id |-> id, present |-> id \in DOMAIN sessionStates,
             found |-> restoreStateFound(sessionStates, id, now),
             state |-> IF restoreStateFound(sessionStates, id, now)
                       THEN sessionStates[id] ELSE NoSnapshot,
             at |-> now]
  /\ UNCHANGED <<now, activeSessions, conns, objs, inits, tasks, threads, out, grace, cap>>

StoreDelete(id) ==
  /\ sessionStates' = deleteState(sessionStates, id)
  /\ ret' = [op |-> "delete", id |-> id, present |-> id \in DOMAIN sessionStates,
             found |-> FALSE, state |-> NoSnapshot, at |-> now]
  /\ UNCHANGED <<now, activeSessions, conns, objs, inits, tasks, threads, out, grace, cap>>

\* clearAll()
StoreClearAll ==
  /\ sessionStates' = clearAll(sessionStates)
  /\ ret' = [op |-> "clearAll", id |-> "", present |-> FALSE,
             found |-> FALSE, state |-> NoSnapshot, at |-> now]
  /\ UNCHANGED <<now, activeSessions, conns, objs, inits, tasks, threads, out, grace, cap>>

StoreTick(d) ==
  /\ now + d <= MaxStoreTime
  /\ now' = now + d
  /\ UNCHANGED <<sessionStates, activeSessions, conns, objs, inits, tasks, threads, out, grace, ret, cap>>

NextStore ==
  \/ \E id \in StoreIds, th \in StoreThreads, ts \in {0, now} :
        StoreSave(id, [sessionId |-> id, threadId |-> th, timestamp |-> ts])
  \/ \E id \in StoreIds : StoreRestore(id)
  \/ \E id \in StoreIds : StoreDelete(id)
  \/ StoreClearAll
  \/ \E d \in StoreSteps : StoreTick(d)

SpecStore == Init /\ [][NextStore]_vars

\* ------------------------------------------------------------ DTMF helper alone
DtmfKeys == {"1", "2", "#"}
DtmfModes == {"languageSwitch", "phoneNumber", "dateOfBirth", "confirmation", "menuSelection"}
DtmfOverrides == {0, 2, 9}

\* ret: the last call, its return value, and how many digits have been fed since
\* the helper was last constructed, switched, reset or cleared
DtmfRet(op, res, fed) == [op |-> op, result |-> res, fed |-> fed]

InitDtmf ==
  /\ now = 0
  /\ sessionStates = EmptyMap
  /\ activeSessions = EmptyMap
  /\ conns = [c \in Conns |-> ConnInit]
  /\ objs = <<ObjInit("")>>
  /\ inits = {}
  /\ tasks = <<>>
  /\ threads = <<>>
  /\ out = <<>>
  /\ grace = {}
  /\ ret = DtmfRet("constructor", <<>>, 0)
  /\ cap = SessionCap

DtmfProcess(digit) ==
  /\ ret.fed < MaxFed
  /\ LET r == processDTMF(objs[1].dtmf, digit)
     IN /\ objs' = [objs EXCEPT ![1].dtmf = r.dt]
        /\ ret' = DtmfRet("processDTMF", r.result, ret.fed + 1)
  /\ UNCHANGED <<now, sessionStates, activeSessions, conns, inits, tasks, threads, out, grace, cap>>

DtmfSetState(mode, n) ==
  /\ objs' = [objs EXCEPT ![1].dtmf = dtmfSetState(@, mode, n)]
  /\ ret' = DtmfRet("setState", <<>>, 0)
  /\ UNCHANGED <<now, sessionStates, activeSessions, conns, inits, tasks, threads, out, grace, cap>>

DtmfResetState ==
  /\ objs' = [objs EXCEPT ![1].dtmf = dtmfResetState(@)]
  /\ ret' = DtmfRet("resetState", <<>>, 0)
  /\ UNCHANGED <<now, sessionStates, activeSessions, conns, inits, tasks, threads, out, grace, cap>>

DtmfClearBuffer ==
  /\ objs' = [objs EXCEPT ![1].dtmf = dtmfClearBuffer(@)]
  /\ ret' = DtmfRet("clearBuffer", <<>>, 0)
  /\ UNCHANGED <<now, sessionStates, activeSessions, conns, inits, tasks, threads, out, grace, cap>>

NextDtmf ==
  \/ \E digit \in DtmfKeys : DtmfProcess(digit)
  \/ \E mode \in DtmfModes, n \in DtmfOverrides : DtmfSetState(mode, n)
  \/ DtmfResetState
  \/ DtmfClearBuffer

SpecDtmf == InitDtmf /\ [][NextDtmf]_vars

\* ------------------------------------------------------------ idle timer alone
TimerDurations == {5000, IDLE_TIMEOUT}
TimerSteps == {5000}

\* ret: the last call and the history of the timer: countdowns armed, countdowns
\* that were pending when a call had to discard them, idleTimeout events emitted,
\* and when and for how long the latest countdown was armed
TimerRet(op, arms, cancelled, events, armedAt, armedFor) ==
  [op |-> op, arms |-> arms, cancelled |-> cancelled, events |-> events,
   armedAt |-> armedAt, armedFor |-> armedFor]

TimerOf == objs[1].timer

InitTimer ==
  /\ now = 0
  /\ sessionStates = EmptyMap
  /\ activeSessions = EmptyMap
  /\ conns = [c \in Conns |-> ConnInit]
  /\ objs = <<ObjInit("")>>
  /\ inits = {}
  /\ tasks = <<>>
  /\ threads = <<>>
  /\ out = <<>>
  /\ grace = {}
  /\ ret = TimerRet("constructor", 0, 0, 0, 0, 0)
  /\ cap = SessionCap

\* start() or restart()
TimerArm(op) ==
  /\ ret.arms < MaxArms
  /\ objs' = [objs EXCEPT ![1].timer = IF op = "start" THEN timerStart(@, now)
                                       ELSE timerRestart(@, now)]
  /\ ret' = TimerRet(op, ret.arms + 1, ret.cancelled + Len(TimerOf.queue), ret.events,
                     now, TimerOf.timeoutDuration)
  /\ UNCHANGED <<now, sessionStates, activeSessions, conns, inits, tasks, threads, out, grace, cap>>

TimerClear ==
  /\ objs' = [objs EXCEPT ![1].timer = timerClear(@)]
  /\ ret' = [ret EXCEPT !.op = "clear", !.cancelled = @ + Len(TimerOf.queue)]
  /\ UNCHANGED <<now, sessionStates, activeSessions, conns, inits, tasks, threads, out, grace, cap>>

TimerSetDuration(d) ==
  /\ TimerOf.isActive => ret.arms < MaxArms
  /\ objs' = [objs EXCEPT ![1].timer = timerSetDuration(@, d, now)]
  /\ ret' = IF TimerOf.isActive
            THEN TimerRet("setDuration", ret.arms + 1, ret.cancelled + Len(TimerOf.queue),
                          ret.events, now, d)
            ELSE [ret EXCEPT !.op = "setDuration"]
  /\ UNCHANGED <<now, sessionStates, activeSessions, conns, inits, tasks, threads, out, grace, cap>>

\* countdown i comes due: the callback resets the DTMF helper, emits idleTimeout
\* (a listener may call start() from inside the event) and sets isActive = false
TimerExpire(i, rearm) ==
  /\ i \in 1..Len(TimerOf.queue)
  /\ TimerOf.queue[i] = now
  /\ rearm => ret.arms < MaxArms
  /\ LET t1 == timerFire(TimerOf, i)
         t2 == IF rearm THEN timerStart(t1, now) ELSE t1
     IN /\ objs' = [objs EXCEPT ![1].timer = timerFired(t2), ![1].dtmf = dtmfResetState(@)]
        /\ ret' = IF rearm
                  THEN TimerRet("expiry", ret.arms + 1, ret.cancelled + Len(t1.queue),
                                ret.events + 1, now, t1.timeoutDuration)
                  ELSE [ret EXCEPT !.op = "expiry", !.events = @ + 1]
  /\ UNCHANGED <<now, sessionStates, activeSessions, conns, inits, tasks, threads, out, grace, cap>>

TimerTick(d) ==
  /\ now + d <= MaxTimerTime
  /\ \A i \in 1..Len(TimerOf.queue) : now + d <= TimerOf.queue[i]
  /\ now' = now + d
  /\ UNCHANGED <<sessionStates, activeSessions, conns, objs, inits, tasks, threads, out, grace, ret, cap>>

NextTimer ==
  \/ \E op \in {"start", "restart"} : TimerArm(op)
  \/ TimerClear
  \/ \E d \in TimerDurations : TimerSetDuration(d)
  \/ \E i \in 1..Len(TimerOf.queue), rearm \in BOOLEAN : TimerExpire(i, rearm)
  \/ \E d \in TimerSteps : TimerTick(d)

SpecTimer == InitTimer /\ [][NextTimer]_vars

NextStream ==
  \/ \E text \in Prompts : HandlePrompt(1, text)
  \/ \E digit \in cap.digits : HandleDtmf(1, digit)
  \/ HandleInterrupt(1)
  \/ \E k \in DOMAIN tasks, ok \in BOOLEAN : AddMessageDone(k, ok)
  \/ \E k \in DOMAIN tasks, ok \in BOOLEAN : RunCreateDone(k, ok)
  \/ \E k \in DOMAIN tasks : \E ev \in NextEvents(tasks[k]) : StreamEvent(k, ev)
  \/ \E k \in DOMAIN tasks : StreamEnd(k)
  \/ \E k \in DOMAIN tasks : StreamThrow(k)

SpecStream == InitStream /\ [][NextStream]_vars

\* ================================================================ properties
\* the text frames of processMessage call k on the wire, in order
TextFrames(k) ==
  LET fs == SelectSeq(out, LAMBDA f : f.stream = k /\ f.msg.type = "text")
  IN [i \in 1..Len(fs) |-> fs[i].msg]

\* the frames the textDelta listener sends for a list of tokens
DeltaFrames(content) ==
  [i \in 1..Len(content) |-> [type |-> "text", token |-> content[i], last |-> FALSE]]

TerminalFrame == [type |-> "text", token |-> "", last |-> TRUE]

IsPrompt(m) == Len(m) = 1 /\ m[1] \in Prompts
IsDtmfInput(m) == m[1] = "DTMF INPUT: "

\* the addMessage/streamResponse pair of a processMessage call is in progress
PairInProgress(t) == t.pc \in {"addMessage", "runCreate", "streaming"}

\* position of the first occurrence of message m on a thread (0 = not there)
PosOf(th, m) ==
  IF \E i \in 1..Len(th) : th[i] = m
  THEN CHOOSE i \in 1..Len(th) : th[i] = m /\ \A j \in 1..(i - 1) : th[j] # m
  ELSE 0

\* C1: at any instant at most one streamResponse call is in flight on the adapter of
\* a session, whatever inbound messages arrive.
C1_OneStreamInFlight ==
  \A o \in DOMAIN objs :
    Cardinality({k \in DOMAIN tasks : tasks[k].obj = o /\ InFlight(tasks[k])}) <= 1

\* C2: a prompt followed by a completing dtmf frame yields the adapter's
\* addMessage/stream pairs one after the other in arrival order: the pairs never
\* overlap and the DTMF message never lands on the thread before the prompt.
C2_PromptThenDtmfInOrder ==
  \A k1, k2 \in DOMAIN tasks :
    (k1 < k2 /\ tasks[k1].obj = tasks[k2].obj
       /\ IsPrompt(tasks[k1].msg) /\ IsDtmfInput(tasks[k2].msg))
    => /\ ~(PairInProgress(tasks[k1]) /\ PairInProgress(tasks[k2]))
       /\ LET th == threads[objs[tasks[k1].obj].threadId]
              pd == PosOf(th, tasks[k2].msg)
              pp == PosOf(th, tasks[k1].msg)
          IN pd # 0 => (pp # 0 /\ pp < pd)

\* C3: a setup for the session id that arrives while the grace timer of a closed
\* transport is pending cancels the destruction: when that timer comes due the
\* session stays registered with its services and its snapshot.
C3_SetupCancelsDestruction ==
  [][\A g \in grace :
       (g.rebound /\ GraceFire(g))
       => /\ activeSessions' = activeSessions
          /\ objs' = objs
          /\ sessionStates' = sessionStates]_vars

\* C4: on an open transport bound to the session, every event the adapter emits is
\* relayed as the frames of its listener, in order, none lost or added, after any
\* sequence of setups, closes, rebinds and grace-timer expiries.
BoundOpen(o) == objs[o].bound # 0 /\ conns[objs[o].bound].st = "open"

RECURSIVE ListenAll(_)
ListenAll(evs) ==
  IF evs = <<>> THEN <<>> ELSE Listeners(Head(evs)) \o ListenAll(Tail(evs))

Sent(fs) == [i \in 1..Len(fs) |-> [conn |-> fs[i].conn, msg |-> fs[i].msg]]

C4_EventsRelayedInOrder ==
  [][\A k \in DOMAIN tasks : \A ev \in NextEvents(tasks[k]) :
       LET o == tasks[k].obj
           ms == ListenAll(StreamEmits(tasks[k], ev))
       IN (StreamEvent(k, ev) /\ ~interrupted(o) /\ BoundOpen(o))
          => Sent(out') = Sent(out) \o
                          [i \in 1..Len(ms) |-> [conn |-> objs[o].bound, msg |-> ms[i]]]]_vars

\* C5: at most one open transport is bound to a session at any time; after a rebind
\* the previous connection no longer reaches the session's services.
C5_OneOpenTransportPerSession ==
  \A o \in DOMAIN objs :
    Cardinality({c \in Conns : conns[c].st = "open" /\ conns[c].svc = o}) <= 1

\* C6: a rebind to a live session reuses the adapter, the DTMF collector and the idle
\* timer unchanged: the adapter keeps its thread id, and no createThread or
\* addMessage is issued.
C6_RebindReusesServices ==
  [][\A c \in Conns, sid \in SessionIds :
       (HandleSetup(c, sid) /\ sid \in DOMAIN activeSessions)
       => LET o == activeSessions[sid]
          IN /\ conns'[c].svc = o
             /\ Len(objs') = Len(objs)
             /\ objs'[o].threadId = objs[o].threadId
             /\ objs'[o].dtmf = objs[o].dtmf
             /\ objs'[o].timer = objs[o].timer
             /\ threads' = threads
             /\ tasks' = tasks
             /\ inits' = inits]_vars

\* a second connection holds the services of a session whose thread exists and
\* carries a message: a rebind has taken place
C6_Witness ==
  \E c1, c2 \in Conns :
    /\ c1 < c2
    /\ conns[c1].svc # 0
    /\ conns[c1].svc = conns[c2].svc
    /\ objs[conns[c2].svc].bound = c2
    /\ objs[conns[c2].svc].threadId # NullThread
    /\ threads[objs[conns[c2].svc].threadId] # <<>>

\* C7: restoreState never returns a snapshot older than the 30-minute TTL.
C7_RestoreNeverStale ==
  (ret.op = "restore" /\ ret.found) => ret.at - ret.state.timestamp <= STATE_TIMEOUT

\* restoreState was called on a stored snapshot and returned none
C7_Witness == ret.op = "restore" /\ ret.present /\ ~ret.found

\* C8: the TTL boundary is inclusive for restore and for the eviction that save
\* runs: a snapshot aged exactly the TTL is returned and is kept, a snapshot is
\* evicted only when strictly older, and restoring an expired snapshot removes it.
C8_InclusiveBoundary ==
  [][/\ \A id \in StoreIds :
          (StoreRestore(id) /\ id \in DOMAIN sessionStates)
          => LET age == now - sessionStates[id].timestamp
             IN IF age <= STATE_TIMEOUT
                THEN /\ ret'.found
                     /\ ret'.state = sessionStates[id]
                     /\ sessionStates' = sessionStates
                ELSE /\ ~ret'.found
                     /\ id \notin DOMAIN sessionStates'
     /\ \A id \in StoreIds, th \in StoreThreads, ts \in {0, now} :
          StoreSave(id, [sessionId |-> id, threadId |-> th, timestamp |-> ts])
          => \A j \in (DOMAIN sessionStates) \ {id} :
               IF now - sessionStates[j].timestamp <= STATE_TIMEOUT
               THEN j \in DOMAIN sessionStates' /\ sessionStates'[j] = sessionStates[j]
               ELSE j \notin DOMAIN sessionStates']_vars

\* a save has run while another snapshot was exactly the TTL old, and that
\* snapshot is still stored
C8_Witness ==
  /\ ret.op = "save"
  /\ \E j \in (DOMAIN sessionStates) \ {ret.id} :
       ret.at - sessionStates[j].timestamp = STATE_TIMEOUT /\ now = ret.at

\* C9: a streamResponse call that streams n tokens and completes sends n
\* text frames with last = false, in order, then exactly one {token: "", last: true}.
C9_DeltasThenTerminal ==
  \A k \in DOMAIN tasks :
    (tasks[k].pc = "streaming" /\ tasks[k].bphase = "ended" /\ tasks[k].msgs # <<>>)
    => TextFrames(k) = DeltaFrames(tasks[k].content) \o <<TerminalFrame>>

\* C10: after interrupt no frame is sent for events of the stream that was stopped,
\* also when a later prompt starts a new stream on the same adapter.
C10_NoFrameAfterInterrupt ==
  \A i \in DOMAIN out : ~out[i].late

\* ---------------------------------------------------------------- DTMF helper
DtmfOf == objs[1].dtmf

\* a formatted value with its formatting characters removed
StripFormat(f) == SelectSeq(f, LAMBDA x : x \notin {"(", ") ", "-", "/"})

\* C11: in phone-number mode with the default length, the first nine digits report
\* incomplete and the tenth completes with "(d1d2d3) d4d5d6-d7d8d9d10"; stripping the
\* formatting characters gives back d1..d10 and the buffer is empty afterwards.
C11_TenDigitsFormatPhone ==
  [][\A digit \in DtmfKeys :
       (DtmfProcess(digit) /\ DtmfOf.state = "phoneNumber" /\ DtmfOf.expectedLength = 0)
       => LET b == Append(DtmfOf.inputBuffer, digit)
              d == objs'[1].dtmf
          IN IF Len(b) < 10
             THEN ~d.isCollectionComplete /\ d.inputBuffer = b
             ELSE /\ Len(b) = 10
                  /\ d.isCollectionComplete
                  /\ d.inputBuffer = <<>>
                  /\ ret'.result =
                       <<"Phone number received: ", "(", b[1], b[2], b[3], ") ",
                         b[4], b[5], b[6], "-", b[7], b[8], b[9], b[10]>>
                  /\ StripFormat(Tail(ret'.result)) = b]_vars

\* the tenth digit of a default-length phone collection has just been processed
C11_Witness ==
  /\ ret.op = "processDTMF"
  /\ ret.fed = 10
  /\ DtmfOf.state = "phoneNumber"
  /\ DtmfOf.expectedLength = 0
  /\ DtmfOf.isCollectionComplete
  /\ Len(ret.result) = 14

\* C12: the eleventh digit fed one at a time in phone-number mode is answered with
\* the 'too many digits' error completion: the machine is complete, no formatted
\* number is produced for that input, and the buffer is cleared.
C12_EleventhDigitIsError ==
  [][\A digit \in DtmfKeys :
       (DtmfProcess(digit) /\ DtmfOf.state = "phoneNumber" /\ DtmfOf.expectedLength = 0
          /\ ret.fed = 10)
       => /\ objs'[1].dtmf.isCollectionComplete
          /\ objs'[1].dtmf.inputBuffer = <<>>
          /\ ret'.result = <<"Phone number input error. Too many digits entered.">>]_vars

\* the length at which an accumulate mode is expected to complete
ExpectedLengthOf(d) ==
  IF d.expectedLength > 0 THEN d.expectedLength
  ELSE IF d.state = "phoneNumber" THEN PHONE_LENGTH ELSE DOB_LENGTH

\* C13: after every processDTMF call in an accumulate mode either the buffer is
\* shorter than the expected length and the machine is incomplete, or the machine
\* is complete with an empty buffer.
C13_BufferBelowExpectedOrTerminal ==
  (ret.op = "processDTMF" /\ DtmfOf.state \in {"phoneNumber", "dateOfBirth"})
  => \/ Len(DtmfOf.inputBuffer) < ExpectedLengthOf(DtmfOf) /\ ~DtmfOf.isCollectionComplete
     \/ DtmfOf.isCollectionComplete /\ DtmfOf.inputBuffer = <<>>

\* ------------------------------------------------------------------ idle timer
\* C14: an idle timer has at most one pending countdown at any instant, for any
\* sequence of start, restart, setDuration, clear and expiry.
C14_OnePendingCountdown == Len(TimerOf.queue) <= 1

\* a countdown was re-armed while pending, and one countdown is pending
C14_Witness ==
  /\ ret.op \in {"start", "restart", "setDuration"}
  /\ ret.cancelled >= 1
  /\ Len(TimerOf.queue) = 1

\* C15: every countdown armed is either discarded (by clear or by a re-arm before
\* it elapses), still pending, or has emitted idleTimeout exactly once; the pending
\* countdown is the latest one armed and comes due one full duration after that arm.
C15_OneEventPerElapsedArm ==
  /\ ret.events = ret.arms - ret.cancelled - Len(TimerOf.queue)
  /\ TimerOf.queue # <<>> => TimerOf.queue = <<ret.armedAt + ret.armedFor>>
  /\ ret.op = "clear" => TimerOf.queue = <<>>

\* a restart at 5 s moved the expiry to 15 s after the first arm; it fired once
C15_Witness ==
  /\ ret.op = "expiry"
  /\ ret.arms = 2
  /\ ret.cancelled = 1
  /\ ret.events = 1
  /\ ret.armedAt = 5000
  /\ ret.armedFor = IDLE_TIMEOUT
  /\ TimerOf.queue = <<>>
  /\ now = 15000

\* the step handled a frame of one of the given types
FrameHandled(kinds) == ret' # ret /\ ret'.op \in kinds

\* the step sent exactly one frame, an error frame on connection c
OneErrorFrame(c) ==
  /\ Len(out') = Len(out) + 1
  /\ SubSeq(out', 1, Len(out)) = out
  /\ out'[Len(out')].conn = c
  /\ out'[Len(out')].msg.type = "error"

\* C17: a prompt, dtmf or interrupt frame on a connection that no setup has
\* initialised is answered with one error frame on that connection; no
\* processMessage call is made and services, registry and store do not change.
C17_UninitialisedRejected ==
  [][FrameHandled({"prompt", "dtmf", "interrupt"}) /\ conns[ret'.conn].svc = 0
       => /\ OneErrorFrame(ret'.conn)
          /\ UNCHANGED <<tasks, threads, objs, inits, conns, activeSessions, sessionStates, grace>>]_vars

\* C18: a frame that does not parse to a message object is answered with exactly
\* one error frame on its connection, and services, registry, store and the
\* calls in progress are unchanged.
C18_MalformedOneErrorFrame ==
  [][FrameHandled({"malformed"})
       => /\ OneErrorFrame(ret'.conn)
          /\ UNCHANGED <<tasks, threads, objs, inits, conns, activeSessions, sessionStates, grace>>]_vars

\* processMessage call k of a prompt ends in this step because addMessage or
\* streamResponse raised (not by the end of its stream and not by an interrupt)
PromptFails(k) ==
  /\ IsPrompt(tasks[k].msg)
  /\ tasks[k].pc \in {"addMessage", "runCreate", "streaming"}
  /\ tasks'[k].pc = "done"
  /\ ~(tasks[k].pc = "streaming" /\ (tasks[k].bphase = "ended" \/ interrupted(tasks[k].obj)))

\* bundle o serves a session that is set up: it is registered and the connection
\* that ran its latest setup is open
Active(o) ==
  /\ objs[o].bound # 0
  /\ conns[objs[o].bound].st = "open"
  /\ conns[objs[o].bound].svc = o
  /\ objs[o].sessionId \in DOMAIN activeSessions
  /\ activeSessions[objs[o].sessionId] = o

\* the frames the step sent
NewFrames == SubSeq(out', Len(out) + 1, Len(out'))

\* C19: when addMessage or streamResponse raises while a prompt of a set-up session
\* is handled, the step sends at least one frame, every frame it sends is an error
\* frame other than 'Invalid message format', the registry and the connections are
\* unchanged.
C19_AdapterFailureSurfaced ==
  [][\A k \in DOMAIN tasks :
       PromptFails(k) /\ Active(tasks[k].obj)
         => /\ Len(out') > Len(out)
            /\ SubSeq(out', 1, Len(out)) = out
            /\ \A i \in DOMAIN NewFrames :
                 NewFrames[i].msg.type = "error" /\ NewFrames[i].msg.message # InvalidFormat
            /\ UNCHANGED <<activeSessions, conns, sessionStates>>]_vars

\* the first prompt failed with error frames; after them the second prompt of the
\* same session streamed a reply to its terminal frame
C19_Witness ==
  /\ Len(tasks) = 2
  /\ IsPrompt(tasks[1].msg) /\ IsPrompt(tasks[2].msg)
  /\ \E i, j \in DOMAIN out :
       /\ i < j
       /\ out[i].stream = 1 /\ out[i].msg.type = "error"
       /\ out[j].stream = 2 /\ out[j].msg.type = "text" /\ out[j].msg.last
  /\ \A i \in DOMAIN out : out[i].stream = 1 => out[i].msg.type = "error"

\* the connections that ran a setup for session id sid
ConnsOf(sid) == {c \in Conns : conns[c].sid = sid}

\* every connection of sid is closed and its grace period has run out, and the
\* session had been set up on one of them
GraceOver(sid) ==
  /\ ConnsOf(sid) # {}
  /\ \A c \in ConnsOf(sid) : conns[c].st = "closed" /\ \A g \in grace : g.conn # c
  /\ \A i \in inits : i.sid # sid
  /\ \E c \in ConnsOf(sid) : conns[c].svc # 0 /\ objs[conns[c].svc].bound # 0

\* C20: once the transports of a session are closed and their grace periods have
\* run out with no further setup, the session is not in the registry, its Adapter
\* and Idle Timer are cleaned up and the State Store holds no snapshot of it, so
\* that a later setup finds nothing to take over and creates a new thread.
C20_GraceExpiryDestroys ==
  \A sid \in SessionIds :
    GraceOver(sid)
      => /\ sid \notin DOMAIN activeSessions
         /\ sid \notin DOMAIN sessionStates
         /\ \A o \in DOMAIN objs :
              objs[o].sessionId = sid
                => objs[o].agentL = 0 /\ objs[o].idleL = 0 /\ objs[o].timer.queue = <<>>

\* C21: the end of a grace period does not shorten the life of a snapshot: an
\* entry leaves the State Store only when it is older than the 30-minute TTL.
C21_SnapshotOutlivesGrace ==
  [][\A id \in DOMAIN sessionStates :
       id \notin DOMAIN sessionStates'
         => now' - sessionStates[id].timestamp > STATE_TIMEOUT]_vars

\* the step is a setup that found no live session for sid but a snapshot it can use
RestoreSetup(c, sid) ==
  /\ conns[c].st = "open"
  /\ conns'[c].sid = sid /\ conns'[c].svc = Len(objs) + 1
  /\ Len(objs') = Len(objs) + 1
  /\ sid \notin DOMAIN activeSessions
  /\ restoreStateFound(sessionStates, sid, now)

RebindSetup(c, sid) ==
  /\ conns[c].st = "open"
  /\ sid \in DOMAIN activeSessions
  /\ conns[c].svc # activeSessions[sid]
  /\ conns'[c].st = "open" /\ conns'[c].sid = sid /\ conns'[c].svc = activeSessions[sid]
  /\ Len(objs') = Len(objs)

\* the step starts the call that adds the reconnection notice for sid
NoticeStarted(c, sid) ==
  \E i \in inits' \ inits :
    /\ i.await = "addNotice" /\ i.conn = c /\ i.sid = sid
    /\ i.thread = sessionStates[sid].threadId

\* C23 as stated: every reconnection, a rebind to a live session as well as a
\* restore from a snapshot, adds the 'please repeat' notice to the conversation.
C23_EveryReconnectionNotice ==
  [][\A c \in Conns, sid \in SessionIds :
       /\ RebindSetup(c, sid) /\ objs[activeSessions[sid]].threadId # NullThread
            => LET t == objs[activeSessions[sid]].threadId
               IN threads'[t] = Append(threads[t], ReconnectNotice)
       /\ RestoreSetup(c, sid) /\ sessionStates[sid].threadId # NullThread
            => NoticeStarted(c, sid)]_vars

\* C23 amended: a restore from a snapshot that holds a thread id starts the call
\* that adds the 'please repeat' notice whatever the age of the snapshot, and the
\* only thing the returning call can add to the thread is that one notice (a failed
\* call adds nothing); a rebind to a live session adds nothing to the conversation.
C23_RestoreNoticeOnly ==
  [][/\ \A c \in Conns, sid \in SessionIds :
          /\ RebindSetup(c, sid) => threads' = threads /\ inits' = inits
          /\ RestoreSetup(c, sid) /\ sessionStates[sid].threadId # NullThread
               => NoticeStarted(c, sid)
     /\ \A i \in inits :
          i.await = "addNotice" /\ i \notin inits'
            => IF i.thread = NullThread THEN threads' = threads
               ELSE threads'[i.thread] \in {Append(threads[i.thread], ReconnectNotice),
                                            threads[i.thread]}]_vars

\* the notice call of a restore is in flight for a snapshot that is at least a
\* grace period old
C23_Witness ==
  \E i \in inits :
    /\ i.await = "addNotice"
    /\ i.sid \in DOMAIN sessionStates
    /\ now - sessionStates[i.sid].timestamp >= GRACE_PERIOD

\* C24: a handoff event puts exactly one 'end' frame with the handoff context on
\* the wire, and once an 'end' frame has been sent no further frame is sent.
C24_EndFrameTerminal ==
  [][/\ \A k \in DOMAIN tasks : \A ev \in NextEvents(tasks[k]) :
          StreamEvent(k, ev) /\ ~interrupted(tasks[k].obj)
            /\ ev.name \in {"human_agent_handoff", "transfer_to_agent", "escalate"}
            => SelectSeq(NewFrames, LAMBDA f : f.msg.type = "end")
                 = Wire(1, <<[type |-> "end", handoffData |-> ev.arg]>>, k, tasks[k].stopped)
     /\ (\E i \in DOMAIN out : out[i].msg.type = "end") => out' = out]_vars

\* C25: a languageSwitch event whose target is a configured language sends exactly
\* one 'language' frame with ttsLanguage and transcriptionLanguage equal to the
\* locale code of that language; any other target sends no frame, and in neither
\* case is the session state changed.
C25_LanguageSwitchFrame ==
  [][\A k \in DOMAIN tasks : \A ev \in NextEvents(tasks[k]) :
       StreamEvent(k, ev) /\ ~interrupted(tasks[k].obj)
         /\ ev.name \in {"switch_language", "change_language"}
         => /\ NewFrames =
                 IF ev.arg \in Languages
                 THEN Wire(1, <<[type |-> "language", ttsLanguage |-> LanguageLocale[ev.arg],
                                 transcriptionLanguage |-> LanguageLocale[ev.arg]]>>,
                           k, tasks[k].stopped)
                 ELSE <<>>
            /\ UNCHANGED <<objs, conns, activeSessions, sessionStates, threads>>]_vars

\* the State Store after the Adapter state of connection c's session is persisted
PersistedFrom(c) ==
  IF conns[c].svc # 0 /\ conns[c].sid # ""
  THEN saveState(sessionStates, conns[c].sid,
                 [sessionId |-> objs[conns[c].svc].sessionId,
                  threadId |-> objs[conns[c].svc].threadId, timestamp |-> now], now)
  ELSE sessionStates

\* C26: a transport error persists the Adapter state to the State Store exactly
\* as a close does, but schedules no destruction and leaves the registry and the
\* session's services (DTMF machine, Idle Timer) unchanged.
C26_ErrorOnlyPersists ==
  [][\A c \in Conns :
       /\ conns[c].st = "open" /\ conns'[c].st = "errored"
            => /\ sessionStates' = PersistedFrom(c)
               /\ grace' = grace
               /\ activeSessions' = activeSessions
               /\ objs' = objs
               /\ inits' = inits /\ tasks' = tasks /\ out' = out
       /\ conns[c].st # "closed" /\ conns'[c].st = "closed"
            => sessionStates' = PersistedFrom(c)]_vars

\* transport errors have hit a set-up connection, whose session is registered
\* and whose snapshot is stored, and a connection whose setup still awaits its
\* backend call; no destruction is scheduled
C26_Witness ==
  /\ \E c \in Conns :
       /\ conns[c].st = "errored" /\ conns[c].svc # 0
       /\ conns[c].sid \in DOMAIN activeSessions
       /\ conns[c].sid \in DOMAIN sessionStates
       /\ sessionStates[conns[c].sid].threadId = objs[conns[c].svc].threadId
       /\ objs[conns[c].svc].threadId # NullThread
  /\ \E i \in inits : conns[i.conn].st = "errored"
  /\ grace = {}

\* C27: save(id, s) stores s under id stamped with the current time, whatever
\* timestamp s carried and whatever was stored before; when it returns no entry
\* older than the TTL is left, every other entry not older than the TTL is
\* unchanged, and no other entry appears.
C27_SaveStampsAndEvicts ==
  [][ret'.op = "save" /\ (ret' # ret \/ sessionStates' # sessionStates)
       => LET id == ret'.id
          IN /\ id \in DOMAIN sessionStates'
             /\ sessionStates'[id] = [sessionId |-> ret'.state.sessionId,
                                      threadId |-> ret'.state.threadId,
                                      timestamp |-> now]
             /\ \A x \in DOMAIN sessionStates' :
                  now - sessionStates'[x].timestamp <= STATE_TIMEOUT
             /\ \A x \in DOMAIN sessionStates \ {id} :
                  now - sessionStates[x].timestamp <= STATE_TIMEOUT
                    => x \in DOMAIN sessionStates' /\ sessionStates'[x] = sessionStates[x]
             /\ DOMAIN sessionStates' \subseteq DOMAIN sessionStates \cup {id}]_vars

\* a save over an existing entry, of a state that carried another timestamp, has
\* just returned while another id's entry is exactly TTL old and still stored
C27_Witness ==
  /\ ret.op = "save" /\ ret.present /\ ret.at = now
  /\ ret.state.timestamp # ret.at
  /\ sessionStates[ret.id].timestamp = ret.at
  /\ \E x \in DOMAIN sessionStates \ {ret.id} :
       now - sessionStates[x].timestamp = STATE_TIMEOUT

\* the step handles a dtmf frame on connection c
DtmfFrame(c) == ret'.op = "dtmf" /\ ret'.n = ret.n + 1 /\ ret'.conn = c

\* C28: a dtmf frame on a connection with services feeds its digit to the DTMF
\* machine and restarts the Idle Timer; when the machine reports completion the
\* timer is cleared, exactly one 'DTMF INPUT: <result>' message is handed to the
\* Adapter and the machine is back in its base state; otherwise nothing is handed
\* to the Adapter, the machine keeps the digit and the timer stays armed.
C28_DtmfForwardedOnCompletion ==
  [][\A c \in Conns :
       DtmfFrame(c) /\ conns[c].svc # 0
         => \E digit \in cap.digits :
              LET o == conns[c].svc
                  r == processDTMF(objs[o].dtmf, digit)
              IN IF r.dt.isCollectionComplete
                 THEN /\ tasks' = Append(tasks, NewTask(o, <<"DTMF INPUT: ">> \o r.result))
                      /\ objs'[o].timer.handle = "null" /\ ~objs'[o].timer.isActive
                      /\ objs'[o].timer.queue = objs[o].timer.queue
                      /\ objs'[o].dtmf = DtmfInit
                 ELSE /\ tasks' = tasks
                      /\ objs'[o].dtmf = r.dt
                      /\ objs'[o].timer.isActive /\ objs'[o].timer.handle = "pending"
                      /\ objs'[o].timer.queue # <<>>
                      /\ objs'[o].timer.queue[Len(objs'[o].timer.queue)] = now + IDLE_TIMEOUT]_vars

\* a digit has completed a collection: its message is with the Adapter, the timer
\* is idle and the machine is in its base state
C28_Witness ==
  /\ ret.op = "dtmf"
  /\ tasks # <<>>
  /\ tasks[Len(tasks)].msg = <<"DTMF INPUT: ", "The caller has requested to switch to ", "spanish", ".">>
  /\ LET o == tasks[Len(tasks)].obj
     IN objs[o].dtmf = DtmfInit /\ ~objs[o].timer.isActive /\ objs[o].timer.queue = <<>>

SingleDigitModes == {"languageSwitch", "confirmation", "menuSelection"}

\* C29: in the single-digit modes (language switch, confirmation, menu selection)
\* every processDTMF call leaves the machine complete with an empty buffer, in the
\* same mode and with the same expected length.
C29_SingleDigitCompletes ==
  [][ret'.op = "processDTMF" /\ ret'.fed = ret.fed + 1 /\ DtmfOf.state \in SingleDigitModes
       => /\ DtmfOf'.isCollectionComplete
          /\ DtmfOf'.inputBuffer = <<>>
          /\ DtmfOf'.state = DtmfOf.state
          /\ DtmfOf'.expectedLength = DtmfOf.expectedLength]_vars

\* the third digit in a row in menu-selection mode has been processed
C29_Witness ==
  /\ ret.op = "processDTMF" /\ ret.fed = 3
  /\ ret.result = <<"Menu option ", "#", " selected by the caller.">>
  /\ DtmfOf.state = "menuSelection"
  /\ DtmfOf.isCollectionComplete /\ DtmfOf.inputBuffer = <<>>

\* C30: setState(mode, n) leaves the buffer empty and the completion flag down; in
\* an accumulate mode entered with a positive override n, of the first n digits
\* exactly the n-th completes the collection, and n is the expected length that
\* getProgress() reports.
C30_OverrideSetsCompletion ==
  /\ ret.op = "setState"
       => /\ DtmfOf.inputBuffer = <<>> /\ ~DtmfOf.isCollectionComplete
          /\ getProgress(DtmfOf).bufferLength = 0 /\ ~getProgress(DtmfOf).isComplete
  /\ ( /\ ret.op = "processDTMF"
       /\ DtmfOf.state \in {"phoneNumber", "dateOfBirth"}
       /\ getProgress(DtmfOf).expectedLength > 0
       /\ ret.fed <= getProgress(DtmfOf).expectedLength )
       => (DtmfOf.isCollectionComplete <=> ret.fed = getProgress(DtmfOf).expectedLength)

\* the step is a setDuration call
SetDurationStep == ret'.op = "setDuration" /\ (ret' # ret \/ objs' # objs)

\* C31: setDuration(d) sets the duration of later arms; a pending countdown is
\* replaced by a single countdown that comes due d after the call, and when none
\* is pending the timer stays disarmed and the call emits no timeout event.
C31_SetDurationRearmsPending ==
  [][SetDurationStep
       => \E d \in TimerDurations :
            /\ TimerOf'.timeoutDuration = d
            /\ ret'.events = ret.events
            /\ IF TimerOf.queue # <<>>
               THEN TimerOf'.queue = <<now + d>> /\ TimerOf'.isActive
               ELSE TimerOf'.queue = <<>> /\ ~TimerOf'.isActive]_vars

\* connection c has been superseded: a later setup bound its session's services to
\* another connection, which is open
Superseded(c) ==
  /\ conns[c].svc # 0
  /\ objs[conns[c].svc].bound \notin {0, c}
  /\ conns[objs[conns[c].svc].bound].st = "open"
  /\ conns[objs[conns[c].svc].bound].svc = conns[c].svc

\* C32: the close of a connection that has been superseded by a rebind leaves the
\* session's Idle Timer as it is, and the grace timer it starts does not destroy
\* the session while the newer connection is open.
C32_SupersededCloseHarmless ==
  [][/\ \A c \in Conns :
          Superseded(c) /\ conns[c].st # "closed" /\ conns'[c].st = "closed"
            => objs'[conns[c].svc].timer = objs[conns[c].svc].timer
     /\ \A g \in grace :
          ~g.rebound /\ Superseded(g.conn) /\ GraceFire(g)
            => /\ activeSessions' = activeSessions
               /\ objs' = objs]_vars

\* C33: a prompt received while the setup of its connection is still awaiting
\* thread creation creates no second backend thread (at most one thread per
\* service bundle), and once no thread creation is pending every message that was
\* added is on the thread a bundle holds.
C33_InitialisationAtomic ==
  /\ Len(threads) <= Len(objs)
  /\ (inits = {} /\ \A k \in DOMAIN tasks : tasks[k].pc # "createThread")
       => \A t \in DOMAIN threads :
            threads[t] # <<>> => \E o \in DOMAIN objs : objs[o].threadId = t

\* C34: two setups for the same id on different connections, the second while the
\* first is still awaiting thread creation, end in one session: one backend thread
\* has been created for the id, and every open connection whose setup obtained a
\* thread refers to the service bundle in the registry.
C34_ConcurrentSetupsOneSession ==
  /\ Len(threads) <= Cardinality(SessionIds)
  /\ inits = {}
       => \A c \in Conns :
            /\ conns[c].st = "open" /\ conns[c].svc # 0
            /\ objs[conns[c].svc].threadId # NullThread
            => /\ conns[c].sid \in DOMAIN activeSessions
               /\ activeSessions[conns[c].sid] = conns[c].svc

\* the text frames among the frames the step sent, for bundle o
NewTextFrames(o) ==
  SelectSeq(NewFrames, LAMBDA f : f.msg.type = "text" /\ f.stream # 0
                                   /\ tasks[f.stream].obj = o)

\* the last frame handled was an interrupt on a connection of bundle o, and the
\* step handles no frame
AfterInterrupt(o) ==
  ret.op = "interrupt" /\ ret' = ret /\ conns[ret.conn].svc = o

\* C35 as stated: once an interrupt has been handled, no text frame is sent for a
\* prompt accepted before it, also when the prompt's stream had not started yet.
C35_InterruptBeforeStreamStops ==
  [][\A o \in DOMAIN objs : AfterInterrupt(o) => NewTextFrames(o) = <<>>]_vars

\* C35 amended: an interrupt clears the adapter's streaming flag and changes
\* nothing else, and no text frame is sent for an adapter whose flag is clear; an
\* interrupt that arrives while a prompt's addMessage is still pending leaves that
\* call as it was, so the reply is streamed once its stream starts.
C35_InterruptClearsFlagOnly ==
  [][/\ \A c \in Conns :
          (ret'.op = "interrupt" /\ ret'.n = ret.n + 1 /\ ret'.conn = c /\ conns[c].svc # 0)
            => LET o == conns[c].svc
               IN /\ objs' = [objs EXCEPT ![o].isStreaming = FALSE]
                  /\ out' = out /\ threads' = threads
                  /\ Len(tasks') = Len(tasks)
                  /\ \A k \in DOMAIN tasks :
                       tasks[k].pc # "streaming" => tasks'[k] = tasks[k]
     /\ \A o \in DOMAIN objs : ~objs[o].isStreaming => NewTextFrames(o) = <<>>]_vars

\* the last frame handled was an interrupt, and the reply to the prompt accepted
\* before it is being streamed: a token is out and the stream is not stopped
C35_Witness ==
  /\ ret.op = "interrupt"
  /\ \E k \in DOMAIN tasks :
       /\ tasks[k].pc = "streaming" /\ ~tasks[k].stopped
       /\ tasks[k].obj = conns[ret.conn].svc
       /\ objs[tasks[k].obj].isStreaming
       /\ \E i \in DOMAIN out : out[i].msg.type = "text" /\ out[i].stream = k

\* C36: a stream that has sent a text frame with last = false is eventually
\* followed by a frame with last = true, however the stream ends; so once the
\* processMessage call has returned (nothing more can be sent for it), the last of
\* its text frames has last = true.
C36_StreamEndsWithTerminalFrame ==
  \A k \in DOMAIN tasks :
    (tasks[k].pc = "done" /\ TextFrames(k) # <<>>)
      => TextFrames(k)[Len(TextFrames(k))].last

\* between two handlers every session's DTMF machine is in its base mode with an
\* empty buffer and its Idle Timer has no countdown pending
ServicesAtRest ==
  \A o \in DOMAIN objs :
    /\ objs[o].dtmf = DtmfInit
    /\ objs[o].timer.queue = <<>> /\ ~objs[o].timer.isActive
    /\ objs[o].timer.handle = "null"

\* C37: in the session controller every dtmf frame finds the DTMF machine in its
\* base mode with an empty buffer, completes a collection and hands exactly one
\* message to the Adapter; no handler leaves the Idle Timer armed, so no countdown
\* can come due and the idle-timeout notice is never sent to the Adapter.
C37_ControllerDtmfAlwaysBase ==
  [][/\ ServicesAtRest /\ ServicesAtRest'
     /\ \A c \in Conns :
          DtmfFrame(c) /\ conns[c].svc # 0
            => /\ Len(tasks') = Len(tasks) + 1
               /\ \E digit \in cap.digits :
                    /\ processDTMF(objs[conns[c].svc].dtmf, digit).dt.isCollectionComplete
                    /\ tasks'[Len(tasks')].msg =
                         <<"DTMF INPUT: ">> \o processDTMF(DtmfInit, digit).result
     /\ \A k \in DOMAIN tasks' : tasks'[k].msg # IdleNotice]_vars

\* a key outside the language menu has been handled after setup: its message is
\* with the Adapter and the machine and the timer are at rest again
C37_Witness ==
  /\ ret.op = "dtmf"
  /\ conns[ret.conn].svc # 0
  /\ tasks # <<>>
  /\ tasks[Len(tasks)].msg =
       <<"DTMF INPUT: ", "Invalid language selection. Press 1 for Spanish or 2 for English.">>
  /\ ServicesAtRest

\* C38: an Adapter failure while a prompt of a set-up session is processed (in
\* addMessage, in runs.create or in the stream) sends exactly one error frame on
\* the session's connection.
C38_OneErrorFramePerFailure ==
  [][\A k \in DOMAIN tasks :
       PromptFails(k) /\ Active(tasks[k].obj)
         => OneErrorFrame(objs[tasks[k].obj].bound)]_vars

\* C39: after any sequence of processDTMF, setState, resetState and clearBuffer
\* calls, isComplete() being true implies that the input buffer is empty.
C39_CompleteImpliesEmptyBuffer ==
  DtmfOf.isCollectionComplete => DtmfOf.inputBuffer = <<>>

\* the eighth digit has completed a date-of-birth collection entered with an
\* override of 2: the machine is complete and its buffer is empty
C39_Witness ==
  /\ ret.op = "processDTMF" /\ ret.fed = 8
  /\ DtmfOf.state = "dateOfBirth" /\ DtmfOf.expectedLength = 2
  /\ DtmfOf.isCollectionComplete /\ DtmfOf.inputBuffer = <<>>

\* C40: isRunning() is true exactly when a countdown is pending, after any
\* sequence of start, restart, clear, setDuration and expiry, also when the
\* idleTimeout listener re-arms the timer from inside the event.
C40_RunningIffPending ==
  isRunning(TimerOf) <=> TimerOf.queue # <<>>
============================================================================
